---- MODULE Spec2Model ----
(***************************************************************************)
(* Node history store of clash_auto_switch (storage.py): the backing JSON  *)
(* file, NodeHistoryStorage's operations on it, and the callers that run   *)
(* them concurrently.                                                      *)
(*                                                                         *)
(* Floats are fixed-point integers: the float x is the integer x * Scale.  *)
(* A Python dict is a function whose DOMAIN is the set of keys present, so *)
(* d.get(k, default) and "k in d" are translated as written.  json.dump    *)
(* followed by json.load is lossless on the values stored here (str keys,  *)
(* lists of flat dicts of str / float / int / None), so a well-formed      *)
(* backing file is represented by the mapping it parses to.                *)
(***************************************************************************)
EXTENDS Integers, Sequences, FiniteSets, TLC

VARIABLES
    file,       \* what the backing file holds
    result,     \* the last whole operation, its arguments and its outcome
    ncalls,     \* calls made so far
    succeeded,  \* triples that had a record_node_status call with is_available = true
    storage,    \* the NodeHistoryStorage instance each caller holds
    lock,       \* owner of each instance's _lock
    pc,         \* where each caller is in its call
    local,      \* the arguments and local variables of each caller's call
    made,       \* record_node_status calls completed, per triple
    successes,  \* those of them made with is_available = True, per triple
    task,       \* the local variables and the position of each run_task
    clash,      \* the proxy groups of the Clash controller: the relay each has selected
    monitoring  \* the MonitoringConfig of the process

vars == <<file, result, ncalls, succeeded, storage, lock, pc, local, made, successes,
          task, clash, monitoring>>
taskVars == <<task, clash, monitoring>>
storeVars == <<file, result, ncalls, succeeded>>
callerVars == <<storage, lock, pc, local, made, successes>>

(* ------------------------------ bounds --------------------------------- *)

\* record_node_status calls made in one behaviour of Spec
MaxCalls == 2
\* longest available_nodes list handed to get_recommended_node
MaxAvail == 2

(* ------------------------------ values --------------------------------- *)

\* fixed-point unit of a float: 1.0 is Scale
Scale == 10000
\* Python's None where a float is optional (last_available_time)
None == -1
\* Python's None where a node name is optional (current_node, the result)
NoneNode == "<None>"
\* seconds between the two modelled check times (ten hours)
TimeStep == 36000

Nodes == {"n1", "n2"}
Groups == {"g1", "g2"}
Services == {"s1"}
Times == {0, TimeStep}

Max(a, b) == IF a >= b THEN a ELSE b
Min(a, b) == IF a <= b THEN a ELSE b

\* d.get(k, default)
Get(d, k, default) == IF k \in DOMAIN d THEN d[k] ELSE default
\* d[k] = v
Put(d, k, v) == [f \in DOMAIN d \cup {k} |-> IF f = k THEN v ELSE d[f]]

\* _get_record_key: f"{proxy_group}#{service}"
get_record_key(proxy_group, service) == proxy_group \o "#" \o service

Keys == {get_record_key(g, s) : g \in Groups, s \in Services}

\* NodeRecord(...).to_dict(): every field of the dataclass
NodeRecord(node_name, service_name, proxy_group, last_available_time, last_check_time, status, reliability_score, total_checks) ==
    [node_name |-> node_name, service_name |-> service_name,
     proxy_group |-> proxy_group, last_available_time |-> last_available_time,
     last_check_time |-> last_check_time, status |-> status,
     reliability_score |-> reliability_score, total_checks |-> total_checks]

RequiredFields == {"node_name", "service_name", "proxy_group",
                   "last_available_time", "last_check_time", "status"}

\* NodeRecord.from_dict: the two defaulted fields are filled in; cls(**data)
\* raises TypeError when a field without default is missing
from_dict_raises(data) == ~(RequiredFields \subseteq DOMAIN data)
from_dict(data) ==
    LET d1 == IF "reliability_score" \in DOMAIN data THEN data
              ELSE Put(data, "reliability_score", 0)
    IN  IF "total_checks" \in DOMAIN d1 THEN d1 ELSE Put(d1, "total_checks", 0)

(* --------------------------- backing file ------------------------------ *)

\* What the backing file holds.  kind:
\*   "absent"   no file
\*   "doc"      a JSON object; doc is the mapping it parses to
\*   "partial"  a truncated or half-written document (invalid JSON)
\*   "badutf8"  bytes that do not decode as UTF-8
\*   "list"     valid JSON whose top level is a list ([])
\*   "null"     valid JSON whose top level is null
EmptyDict == [k \in {} |-> <<>>]
File(kind, doc) == [kind |-> kind, doc |-> doc]
AbsentFile == File("absent", EmptyDict)

\* A Python value returned by json.load: t is its type, d its content when
\* it is a dict
PyDict(d) == [t |-> "dict", d |-> d]
PyOther(t) == [t |-> t, d |-> EmptyDict]

\* Outcome of a call: the exception that left it (or "" when it returned)
\* and the value
Returned(v) == [exc |-> "", val |-> v]
Raised(e) == [exc |-> e, val |-> PyOther("null")]

\* _load_data.  readable = FALSE: open(.., 'r') fails with an IOError.
load_data(f, readable) ==
    IF f.kind = "absent" THEN Returned(PyDict(EmptyDict))
    ELSE IF ~readable THEN Returned(PyDict(EmptyDict))        \* IOError
    ELSE IF f.kind = "partial" THEN Returned(PyDict(EmptyDict)) \* JSONDecodeError
    ELSE IF f.kind = "badutf8" THEN Raised("UnicodeDecodeError")
    ELSE IF f.kind = "doc" THEN Returned(PyDict(f.doc))
    ELSE Returned(PyOther(f.kind))

\* _save_data.  wfault: "none"; "open": open(.., 'w') fails with an IOError
\* and the file is untouched; "write": the file was truncated by open and
\* the write then fails with an IOError, leaving a partial document.
save_open(f, wfault) ==
    IF wfault = "open" THEN f ELSE File("partial", EmptyDict)
save_write(f, data, wfault) ==
    IF wfault = "none" THEN File("doc", data) ELSE f
save_data(f, data, wfault) == save_write(save_open(f, wfault), data, wfault)

(* ------------------------ reliability estimator ------------------------ *)

\* the float literal num/den, and float product and quotient
F(num, den) == (num * Scale) \div den
FMul(a, b) == (a * b) \div Scale
FDiv(a, b) == (a * Scale) \div b

\* a clamp with the ceiling at 0.5
Clamp_half(new_score) == Max(0, Min(Scale \div 2, new_score))

\* max(0.0, min(1.0, new_score))
Clamp(new_score) == Max(0, Min(Scale, new_score))

\* an estimator whose failure penalty is 0.1 + 0.2 * time_factor
calculate_reliability_score_mild(current_score, total_checks, is_success, time_since_last_check) ==
    LET time_decay_hours == Max((time_since_last_check * Scale) \div 3600, F(1, 100))
        time_factor == FDiv(Scale, Scale + FMul(time_decay_hours, F(1, 10)))
        adaptive_rate == FDiv(FMul(F(1, 10), time_factor), Scale + total_checks * F(1, 100))
        failure_penalty == F(1, 10) + FMul(F(2, 10), time_factor)
    IN  Max(0, Min(Scale, IF is_success
                          THEN current_score + FMul(adaptive_rate, Scale - current_score)
                          ELSE FMul(current_score, Scale - failure_penalty)))

\* an estimator whose improvement is the rate itself, without (1 - score)
calculate_reliability_score_linear(current_score, total_checks, is_success, time_since_last_check) ==
    LET time_decay_hours == Max((time_since_last_check * Scale) \div 3600, F(1, 100))
        time_factor == FDiv(Scale, Scale + FMul(time_decay_hours, F(1, 10)))
        adaptive_rate == FDiv(FMul(F(1, 10), time_factor), Scale + total_checks * F(1, 100))
        failure_penalty == F(3, 10) + FMul(F(2, 10), time_factor)
    IN  Max(0, Min(Scale, IF is_success
                          THEN current_score + adaptive_rate
                          ELSE FMul(current_score, Scale - failure_penalty)))

\* _calculate_reliability_score; time_since_last_check is in seconds
calculate_reliability_score(current_score, total_checks, is_success, time_since_last_check) ==
    LET base_learning_rate == F(1, 10)
        time_decay_hours == Max((time_since_last_check * Scale) \div 3600, F(1, 100))
        time_factor == FDiv(Scale, Scale + FMul(time_decay_hours, F(1, 10)))
        adaptive_rate == FDiv(FMul(base_learning_rate, time_factor),
                              Scale + total_checks * F(1, 100))
        improvement == FMul(adaptive_rate, Scale - current_score)
        failure_penalty == F(3, 10) + FMul(F(2, 10), time_factor)
        new_score == IF is_success THEN current_score + improvement
                     ELSE FMul(current_score, Scale - failure_penalty)
    IN  Clamp(new_score)

\* initial_score with the seeds taken as percentages (50 and 10)
initial_score_percent(is_available) == IF is_available THEN 50 * Scale ELSE 10 * Scale

\* initial_score with the two seeds exchanged
initial_score_swapped(is_available) == IF is_available THEN F(1, 10) ELSE F(5, 10)

\* initial_score of a new record
initial_score(is_available) == IF is_available THEN F(5, 10) ELSE F(1, 10)

(* ------------------------- record_node_status -------------------------- *)

StatusOf(is_available) == IF is_available THEN "available" ELSE "failed"

\* a lookup that never finds the record
FindRecord_never(records, node_name) == 0

\* index of the first dict in records whose node_name is node_name, 0 if none
\* (the for / break loop)
FindRecord(records, node_name) ==
    LET hits == {i \in 1..Len(records) :
                    "node_name" \in DOMAIN records[i] /\ records[i].node_name = node_name}
    IN  IF hits = {} THEN 0 ELSE CHOOSE i \in hits : \A j \in hits : i <= j

\* the "if existing_record:" branch: the record after the update
update_record(existing_record, is_available, check_time) ==
    LET time_since_last == check_time - Get(existing_record, "last_check_time", check_time)
        current_score == Get(existing_record, "reliability_score", 0)
        total_checks == Get(existing_record, "total_checks", 0)
        new_score == calculate_reliability_score(current_score, total_checks,
                                                 is_available, time_since_last)
        r1 == Put(existing_record, "last_check_time", check_time)
        r2 == Put(r1, "status", StatusOf(is_available))
        r3 == Put(r2, "reliability_score", new_score)
        r4 == Put(r3, "total_checks", total_checks + 1)
    IN  IF is_available THEN Put(r4, "last_available_time", check_time) ELSE r4

\* the "else" branch: the record that is appended
new_record(node_name, service_name, proxy_group, is_available, check_time) ==
    NodeRecord(node_name, service_name, proxy_group,
               IF is_available THEN check_time ELSE None,
               check_time, StatusOf(is_available), initial_score(is_available), 1)

\* the body of record_node_status between _load_data and _save_data, on a
\* loaded dict: the dict that is saved
record_in_data(data, node_name, service_name, proxy_group, is_available, check_time) ==
    LET key == get_record_key(proxy_group, service_name)
        d0 == IF key \in DOMAIN data THEN data ELSE Put(data, key, <<>>)
        i == FindRecord(d0[key], node_name)
    IN  IF i # 0
        THEN Put(d0, key, [d0[key] EXCEPT ![i] = update_record(@, is_available, check_time)])
        ELSE Put(d0, key, Append(d0[key], new_record(node_name, service_name, proxy_group,
                                                     is_available, check_time)))

\* the exception record_node_status raises when json.load returned a value
\* that is no dict: "key not in data" on None, "data[key] = []" on a list
record_type_error(val) == val.t # "dict"

(* --------------------------- read operations --------------------------- *)

\* the elements of the index set S as an ascending sequence
IndexSeq(S) ==
    [p \in 1..Cardinality(S) |-> CHOOSE i \in S : Cardinality({j \in S : j < i}) = p - 1]

\* list.sort(key=..., reverse=True): stable, highest key first; keys[i] is
\* the key of s[i]
SortDesc(s, keys) ==
    LET n == Len(s)
        rank(i) == 1 + Cardinality({j \in 1..n :
                        keys[j] > keys[i] \/ (keys[j] = keys[i] /\ j < i)})
    IN  [p \in 1..n |-> s[CHOOSE i \in 1..n : rank(i) = p]]

\* get_node_history on the loaded value, node_name = NoneNode for None.
\* A loaded list has no key in it and gives []; "key not in None" raises.
get_node_history(val, proxy_group, service_name, node_name) ==
    LET key == get_record_key(proxy_group, service_name)
        dicts == val.d[key]
        kept == {i \in 1..Len(dicts) :
                    /\ node_name = NoneNode
                       \/ ("node_name" \in DOMAIN dicts[i] /\ dicts[i].node_name = node_name)
                    /\ ~from_dict_raises(dicts[i])}
        idx == IndexSeq(kept)
        records == [p \in 1..Len(idx) |-> from_dict(dicts[idx[p]])]
    IN  IF val.t = "null" THEN Raised("TypeError")
        ELSE IF val.t = "list" THEN Returned(<<>>)
        ELSE IF key \notin DOMAIN val.d THEN Returned(<<>>)
        ELSE Returned(SortDesc(records, [p \in 1..Len(records) |-> records[p].last_check_time]))

\* the result of get_statistics when there are no records
EmptyStatistics ==
    [total_nodes |-> 0, total_checks |-> 0, success_rate |-> 0,
     most_reliable_node |-> NoneNode, highest_reliability_score |-> None,
     last_successful_node |-> NoneNode, reliability_rankings |-> <<>>]

\* get_statistics on the records get_node_history returned
statistics_of(records) ==
    LET n == Len(records)
        \* node_latest: keys in order of first appearance, each with the first
        \* record of the node that has its greatest last_check_time
        firsts == IndexSeq({i \in 1..n : \A j \in 1..(i - 1) :
                                records[j].node_name # records[i].node_name})
        of_node(node) == {i \in 1..n : records[i].node_name = node}
        latest(node) ==
            records[CHOOSE i \in of_node(node) :
                        /\ \A j \in of_node(node) :
                              records[j].last_check_time <= records[i].last_check_time
                        /\ \A j \in of_node(node) :
                              j < i => records[j].last_check_time < records[i].last_check_time]
        successful(node) == Cardinality({i \in of_node(node) : records[i].status = "available"})
        ranking(node) ==
            [node |-> node,
             reliability_score |-> latest(node).reliability_score,
             success_rate |-> FDiv(successful(node), Cardinality(of_node(node))),
             total_checks |-> latest(node).total_checks,
             current_status |-> latest(node).status]
        unsorted == [p \in 1..Len(firsts) |-> ranking(records[firsts[p]].node_name)]
        reliability_rankings ==
            SortDesc(unsorted, [p \in 1..Len(unsorted) |-> unsorted[p].reliability_score])
        available == {i \in 1..n : records[i].status = "available"}
        successful_checks == Cardinality(available)
        last_successful ==
            CHOOSE i \in available :
                /\ \A j \in available : records[j].last_check_time <= records[i].last_check_time
                /\ \A j \in available :
                      j < i => records[j].last_check_time < records[i].last_check_time
    IN  IF n = 0 THEN EmptyStatistics
        ELSE [total_nodes |-> Len(firsts),
              total_checks |-> n,
              success_rate |-> FDiv(successful_checks, n),
              most_reliable_node |-> reliability_rankings[1].node,
              highest_reliability_score |-> reliability_rankings[1].reliability_score,
              last_successful_node |->
                  IF available = {} THEN NoneNode ELSE records[last_successful].node_name,
              reliability_rankings |-> reliability_rankings]

\* get_statistics: get_node_history for every node, then the aggregation
get_statistics(val, proxy_group, service_name) ==
    LET h == get_node_history(val, proxy_group, service_name, NoneNode)
    IN  IF h.exc # "" THEN h ELSE Returned(statistics_of(h.val))

\* get_nodes_by_reliability on the statistics
nodes_by_reliability(stats, min_reliability, limit) ==
    LET rankings == stats.reliability_rankings
        filtered == SelectSeq(rankings, LAMBDA r : r.reliability_score >= min_reliability)
    IN  SubSeq(filtered, 1, Min(limit, Len(filtered)))

\* a history formula whose boost does not look at success_rate and total_checks
history_score_boosted(node_info) ==
    FMul(F(7, 10), node_info.reliability_score) + FMul(F(3, 10), node_info.success_rate)
        + F(1, 10)

\* a history formula that gives every node with history the score 0.5
history_score_flat(node_info) == F(5, 10)

\* final_score of a candidate that has an entry in reliability_map
history_score(node_info) ==
    LET reliability_score == node_info.reliability_score
        success_rate == node_info.success_rate
        total_checks == node_info.total_checks
        combined_score == FMul(F(7, 10), reliability_score) + FMul(F(3, 10), success_rate)
        data_confidence == Min((total_checks * Scale) \div 50, Scale)
        performance_factor == (success_rate - F(5, 10)) * 2
        confidence_boost ==
            IF success_rate > F(5, 10) /\ total_checks >= 5
            THEN FMul(FMul(data_confidence, performance_factor), F(1, 10))
            ELSE 0
    IN  combined_score + confidence_boost

\* final_score of a candidate without history
NoHistoryScore == F(3, 10)

\* final_score of a candidate: the history formula when the node has an
\* entry in reliability_map (the last one of a repeated name), else 0.3
candidate_score(reliable_nodes, node) ==
    LET entries == {p \in 1..Len(reliable_nodes) : reliable_nodes[p].node = node}
    IN  IF entries = {} THEN NoHistoryScore
        ELSE history_score(reliable_nodes[CHOOSE p \in entries : \A q \in entries : q <= p])

\* a recommendation that gives up when every candidate is the current node
recommend_from_no_fallback(reliable_nodes, available_nodes, current_node) ==
    LET others == {i \in 1..Len(available_nodes) : available_nodes[i] # current_node}
    IN  IF others = {} THEN NoneNode
        ELSE available_nodes[CHOOSE i \in others : \A j \in others : i <= j]

\* a recommendation that ignores current_node and the scores
recommend_from_first(reliable_nodes, available_nodes, current_node) ==
    IF Len(available_nodes) = 0 THEN NoneNode ELSE available_nodes[1]

\* a recommendation that takes the head of the reliability ranking
recommend_from_ranking(reliable_nodes, available_nodes, current_node) ==
    IF Len(available_nodes) = 0 THEN NoneNode
    ELSE IF Len(reliable_nodes) > 0 THEN reliable_nodes[1].node
    ELSE available_nodes[1]

\* the body of get_recommended_node after get_nodes_by_reliability returned
\* reliable_nodes
recommend_from(reliable_nodes, available_nodes, current_node) ==
    LET in_map(node) == \E p \in 1..Len(reliable_nodes) : reliable_nodes[p].node = node
        \* a dict comprehension keeps the last entry of a repeated key
        info(node) ==
            reliable_nodes[CHOOSE p \in 1..Len(reliable_nodes) :
                               /\ reliable_nodes[p].node = node
                               /\ \A q \in 1..Len(reliable_nodes) :
                                     reliable_nodes[q].node = node => q <= p]
        final_score(node) == IF in_map(node) THEN history_score(info(node)) ELSE NoHistoryScore
        candidates == [i \in 1..Len(available_nodes) |->
                          [node |-> available_nodes[i], score |-> final_score(available_nodes[i])]]
        \* sort by (-score, index)
        sorted == SortDesc(candidates, [i \in 1..Len(candidates) |-> candidates[i].score])
        others == {p \in 1..Len(sorted) : sorted[p].node # current_node}
    IN  IF Len(candidates) = 0 THEN NoneNode
        ELSE IF others # {} THEN sorted[CHOOSE p \in others : \A q \in others : p <= q].node
        ELSE sorted[1].node

\* get_recommended_node
get_recommended_node(val, proxy_group, service_name, available_nodes, current_node) ==
    LET s == get_statistics(val, proxy_group, service_name)
        reliable_nodes == nodes_by_reliability(s.val, 0, Len(available_nodes))
    IN  IF s.exc # "" THEN s
        ELSE Returned(recommend_from(reliable_nodes, available_nodes, current_node))

(* ------------------------------ pruning -------------------------------- *)

\* 5 * 1024 * 1024: the size from which _cleanup_old_records prunes
CleanupThreshold == 5242880
\* 30 * 24 * 60 * 60: the retention window in seconds
RetentionSec == 2592000

\* st_size values: the record lists under Keys are a part of the document;
\* the size of the file is an input of the call
Sizes == {CleanupThreshold - 1, CleanupThreshold}
\* time.time() values: the cutoff lies before, at and after the first check time
Nows == {TimeStep, RetentionSec, RetentionSec + TimeStep}

\* a pruning that does not look at the size of the file
cleanup_old_records_any_size(data, exists, st_size, now) ==
    LET kept(records) ==
            SelectSeq(records, LAMBDA r : Get(r, "last_check_time", 0) > now - RetentionSec)
    IN  [key \in {k \in DOMAIN data : kept(data[k]) # <<>>} |-> kept(data[key])]

\* _cleanup_old_records on a loaded dict
cleanup_old_records(data, exists, st_size, now) ==
    LET cutoff_time == now - RetentionSec
        filtered(records) ==
            SelectSeq(records, LAMBDA r : Get(r, "last_check_time", 0) > cutoff_time)
        keep == {key \in DOMAIN data : filtered(data[key]) # <<>>}
    IN  IF ~exists \/ st_size < CleanupThreshold THEN data
        ELSE [key \in keep |-> filtered(data[key])]

\* startup_cleanup: the outcome (cleaned data, or the exception) and whether
\* _save_data is called.  data.items() raises on a loaded list or None.
startup_cleanup_outcome(f, readable, st_size, now) ==
    LET ld == load_data(f, readable)
        pruning == f.kind # "absent" /\ st_size >= CleanupThreshold
    IN  IF ld.exc # "" THEN ld
        ELSE IF ld.val.t # "dict"
             THEN (IF pruning THEN Raised("AttributeError") ELSE Returned(ld.val))
        ELSE Returned(PyDict(cleanup_old_records(ld.val.d, f.kind # "absent", st_size, now)))

(* ------------------------- whole operations ---------------------------- *)

WriteFaults == {"none", "open", "write"}

\* record_node_status from _load_data to _save_data: the exception it
\* leaves with ("" when it returns) and the backing file afterwards
record_node_status(f, node_name, service_name, proxy_group, is_available, check_time, readable, wfault) ==
    LET ld == load_data(f, readable)
    IN  IF ld.exc # "" THEN [exc |-> ld.exc, file |-> f]
        ELSE IF record_type_error(ld.val) THEN [exc |-> "TypeError", file |-> f]
        ELSE [exc |-> "",
              file |-> save_data(f, record_in_data(ld.val.d, node_name, service_name,
                                                   proxy_group, is_available, check_time),
                                 wfault)]

\* a startup_cleanup that saves whatever pruning returned
startup_cleanup_always_saves(f, readable, st_size, now, wfault) ==
    LET out == startup_cleanup_outcome(f, readable, st_size, now)
    IN  IF out.exc # "" THEN [exc |-> out.exc, file |-> f]
        ELSE [exc |-> "", file |-> save_data(f, out.val.d, wfault)]

\* startup_cleanup: _save_data runs only if cleaned_data != data
startup_cleanup(f, readable, st_size, now, wfault) ==
    LET out == startup_cleanup_outcome(f, readable, st_size, now)
        data == load_data(f, readable).val
    IN  IF out.exc # "" THEN [exc |-> out.exc, file |-> f]
        ELSE IF out.val # data THEN [exc |-> "", file |-> save_data(f, out.val.d, wfault)]
        ELSE [exc |-> "", file |-> f]

(* ------------------------------- state --------------------------------- *)

Triples == Groups \X Services \X Nodes

\* a record written before reliability_score and total_checks existed, and
\* a malformed record (fields without default missing)
LegacyRecord ==
    [node_name |-> "n1", service_name |-> "s1", proxy_group |-> "g1",
     last_available_time |-> 0, last_check_time |-> 0, status |-> "available"]
MalformedRecord == [node_name |-> "n2", last_check_time |-> 0]
\* a record without last_check_time
UntimedRecord ==
    [node_name |-> "n1", service_name |-> "s1", proxy_group |-> "g2", status |-> "failed"]
LegacyDoc ==
    [key \in Keys |-> IF key = get_record_key("g1", "s1")
                      THEN <<LegacyRecord, MalformedRecord>> ELSE <<UntimedRecord>>]

\* what the backing file may hold when the process starts
InitFiles ==
    {AbsentFile, File("doc", LegacyDoc), File("partial", EmptyDict),
     File("badutf8", EmptyDict), File("list", EmptyDict), File("null", EmptyDict)}

\* the triples of the records of a document that have a last_available_time
AvailableIn(doc) ==
    {t \in Triples :
        /\ get_record_key(t[1], t[2]) \in DOMAIN doc
        /\ \E i \in 1..Len(doc[get_record_key(t[1], t[2])]) :
              LET r == doc[get_record_key(t[1], t[2])][i]
              IN  /\ Get(r, "node_name", NoneNode) = t[3]
                  /\ Get(r, "last_available_time", None) # None}

\* result: the last operation, its arguments and its outcome
NoResult ==
    [op |-> "none", exc |-> "", proxy_group |-> "", service_name |-> "",
     node_name |-> NoneNode, available_nodes |-> <<>>, current_node |-> NoneNode,
     records |-> <<>>, stats |-> EmptyStatistics, node |-> NoneNode, fault |-> FALSE,
     reliable_nodes |-> <<>>, st_size |-> 0, now |-> 0, again |-> FALSE,
     current_score |-> 0, total_checks |-> 0, is_success |-> FALSE, reports |-> <<>>,
     time_since_last_check |-> 0, new_score |-> 0]

ReadOps == {"get_node_history", "get_statistics", "get_recommended_node"}

\* No read calls _save_data: a read leaves the backing file as it is, and
\* the operations after it start from a file that is explored without it.
\* Reads are therefore taken as the last operation of a behaviour.
Ready == result.op \notin ReadOps

\* threads (or processes) calling into the store, and the instances of
\* NodeHistoryStorage they may hold
Callers == {"c1", "c2"}
Instances == {"i1", "i2"}
NoOwner == "<free>"

\* a caller that is not in a call
NoCall ==
    [op |-> "none", node_name |-> NoneNode, is_available |-> FALSE, check_time |-> 0,
     data |-> EmptyDict, observed |-> "none"]

\* the MonitoringConfig defaults, and run_task before it is started
DefaultMonitoring == [once |-> FALSE, max_rotations |-> 0]
Tasks == {"t1"}
NoTask ==
    [pc |-> "not started", rotations |-> 0, is_new_proxy |-> TRUE,
     current_node |-> NoneNode, ok |-> FALSE, next_proxy |-> NoneNode]

InitCallers ==
    /\ lock = [i \in Instances |-> NoOwner]       \* __init__: threading.RLock()
    /\ pc = [c \in Callers |-> "idle"]
    /\ local = [c \in Callers |-> NoCall]
    /\ task = [t \in Tasks |-> NoTask]
    /\ clash = [g \in Groups |-> NoneNode]
    /\ monitoring = DefaultMonitoring

Init ==
    /\ file \in InitFiles
    /\ result = NoResult
    /\ ncalls = 0
    /\ succeeded = AvailableIn(file.doc)
    /\ storage = [c \in Callers |-> "i1"]
    /\ made = [t \in Triples |-> 0]
    /\ successes = [t \in Triples |-> 0]
    /\ InitCallers

\* record_node_status for a proxy group among groups; faulty: the load and
\* the save may hit an I/O fault
RecordNodeStatus(groups, faulty) ==
    /\ Ready
    /\ ncalls < MaxCalls
    /\ \E node_name \in Nodes, service_name \in Services, proxy_group \in groups,
          is_available \in BOOLEAN, check_time \in Times,
          readable \in (IF faulty THEN BOOLEAN ELSE {TRUE}),
          wfault \in (IF faulty THEN WriteFaults ELSE {"none"}) :
          LET out == record_node_status(file, node_name, service_name, proxy_group,
                                        is_available, check_time, readable, wfault)
          IN  /\ file' = out.file
              /\ result' = [NoResult EXCEPT !.op = "record_node_status", !.exc = out.exc,
                                !.proxy_group = proxy_group, !.service_name = service_name,
                                !.node_name = node_name,
                                !.fault = ~readable \/ wfault # "none"]
              /\ succeeded' = IF is_available
                              THEN succeeded \cup {<<proxy_group, service_name, node_name>>}
                              ELSE succeeded
    /\ ncalls' = ncalls + 1
    /\ UNCHANGED callerVars
    /\ UNCHANGED taskVars

GetNodeHistory ==
    /\ Ready
    /\ \E proxy_group \in Groups, service_name \in Services,
          node_name \in Nodes \cup {NoneNode}, readable \in BOOLEAN :
          LET ld == load_data(file, readable)
              out == IF ld.exc # "" THEN ld
                     ELSE get_node_history(ld.val, proxy_group, service_name, node_name)
          IN  result' = [NoResult EXCEPT !.op = "get_node_history", !.exc = out.exc,
                            !.proxy_group = proxy_group, !.service_name = service_name,
                            !.node_name = node_name, !.fault = ~readable,
                            !.records = IF out.exc = "" THEN out.val ELSE <<>>]
    /\ UNCHANGED <<file, ncalls, succeeded>>
    /\ UNCHANGED callerVars
    /\ UNCHANGED taskVars

GetStatistics ==
    /\ Ready
    /\ \E proxy_group \in Groups, service_name \in Services, readable \in BOOLEAN :
          LET ld == load_data(file, readable)
              out == IF ld.exc # "" THEN ld
                     ELSE get_statistics(ld.val, proxy_group, service_name)
          IN  result' = [NoResult EXCEPT !.op = "get_statistics", !.exc = out.exc,
                            !.proxy_group = proxy_group, !.service_name = service_name,
                            !.fault = ~readable,
                            !.stats = IF out.exc = "" THEN out.val ELSE EmptyStatistics]
    /\ UNCHANGED <<file, ncalls, succeeded>>
    /\ UNCHANGED callerVars
    /\ UNCHANGED taskVars

AvailableLists == UNION {[1..n -> Nodes] : n \in 0..MaxAvail}

GetRecommendedNode ==
    /\ Ready
    /\ \E proxy_group \in Groups, service_name \in Services,
          available_nodes \in AvailableLists, current_node \in Nodes \cup {NoneNode},
          readable \in BOOLEAN :
          LET ld == load_data(file, readable)
              out == IF ld.exc # "" THEN ld
                     ELSE get_recommended_node(ld.val, proxy_group, service_name,
                                               available_nodes, current_node)
          IN  result' = [NoResult EXCEPT !.op = "get_recommended_node", !.exc = out.exc,
                            !.proxy_group = proxy_group, !.service_name = service_name,
                            !.available_nodes = available_nodes,
                            !.current_node = current_node, !.fault = ~readable,
                            !.node = IF out.exc = "" THEN out.val ELSE NoneNode]
    /\ UNCHANGED <<file, ncalls, succeeded>>
    /\ UNCHANGED callerVars
    /\ UNCHANGED taskVars

StartupCleanup ==
    /\ Ready
    /\ \E readable \in BOOLEAN, st_size \in Sizes, now \in Nows, wfault \in WriteFaults :
          LET out == startup_cleanup(file, readable, st_size, now, wfault)
          IN  /\ file' = out.file
              /\ result' = [NoResult EXCEPT !.op = "startup_cleanup", !.exc = out.exc,
                                !.st_size = st_size, !.now = now,
                                !.fault = ~readable \/ wfault # "none"]
    /\ UNCHANGED <<ncalls, succeeded>>
    /\ UNCHANGED callerVars
    /\ UNCHANGED taskVars

\* The store under observation recording and pruning
Next ==
    \/ RecordNodeStatus(Groups, TRUE)
    \/ StartupCleanup

Spec == Init /\ [][Next]_vars

\* The read operations.  get_node_history reads data[key] alone, so the
\* observations recorded here are those of one proxy group, recorded without
\* I/O faults; the reads ask for every group.
NextRead ==
    \/ RecordNodeStatus({"g1"}, FALSE)
    \/ GetNodeHistory
    \/ GetStatistics
    \/ GetRecommendedNode

SpecRead == Init /\ [][NextRead]_vars

\* a get_statistics call that writes the loaded mapping back
GetStatisticsSaving ==
    /\ result.op \in ReadOps
    /\ \E proxy_group \in Groups, service_name \in Services :
          LET ld == load_data(file, TRUE)
              out == IF ld.exc # "" THEN ld
                     ELSE get_statistics(ld.val, proxy_group, service_name)
          IN  /\ result' = [NoResult EXCEPT !.op = "get_statistics", !.exc = out.exc,
                                !.proxy_group = proxy_group, !.service_name = service_name,
                                !.again = TRUE,
                                !.stats = IF out.exc = "" THEN out.val ELSE EmptyStatistics]
              /\ file' = IF out.exc = "" THEN save_data(file, ld.val.d, "none") ELSE file
    /\ UNCHANGED <<ncalls, succeeded>>
    /\ UNCHANGED callerVars
    /\ UNCHANGED taskVars

\* get_statistics called right after another read
GetStatisticsAgain ==
    /\ result.op \in ReadOps
    /\ \E proxy_group \in Groups, service_name \in Services, readable \in BOOLEAN :
          LET ld == load_data(file, readable)
              out == IF ld.exc # "" THEN ld
                     ELSE get_statistics(ld.val, proxy_group, service_name)
          IN  result' = [NoResult EXCEPT !.op = "get_statistics", !.exc = out.exc,
                            !.proxy_group = proxy_group, !.service_name = service_name,
                            !.fault = ~readable, !.again = TRUE,
                            !.stats = IF out.exc = "" THEN out.val ELSE EmptyStatistics]
    /\ UNCHANGED <<file, ncalls, succeeded>>
    /\ UNCHANGED callerVars
    /\ UNCHANGED taskVars

\* The reads, with get_statistics repeated after a read
NextReread ==
    \/ NextRead
    \/ GetStatisticsAgain

SpecReread == Init /\ [][NextReread]_vars

(* --------------------------- concurrent calls -------------------------- *)

\* The calls of concurrent callers, step by step.  Each caller holds an
\* instance of NodeHistoryStorage; every instance opens the same backing
\* file (get_data_file_path) and has the lock its __init__ created.  The
\* calls are record_node_status and get_statistics (through
\* get_node_history) for the key g1#s1, without I/O faults.

InCall(c) == pc[c] # "idle"

\* "with self._lock:" entered
Enter(c) ==
    /\ pc[c] = "idle"
    /\ ncalls < MaxCalls
    /\ lock[storage[c]] = NoOwner
    /\ \E op \in {"record_node_status", "get_statistics"}, node_name \in Nodes,
          is_available \in BOOLEAN :
          /\ op = "get_statistics" => (node_name = "n1" /\ ~is_available)
          /\ local' = [local EXCEPT ![c] = [NoCall EXCEPT !.op = op, !.node_name = node_name,
                                                         !.is_available = is_available]]
    /\ lock' = [lock EXCEPT ![storage[c]] = c]
    /\ pc' = [pc EXCEPT ![c] = "locked"]
    /\ ncalls' = ncalls + 1
    /\ UNCHANGED <<file, result, succeeded, storage, made, successes>>
    /\ UNCHANGED taskVars

\* data = self._load_data()
Load(c) ==
    /\ pc[c] = "locked"
    /\ local' = [local EXCEPT ![c].data = load_data(file, TRUE).val.d,
                              ![c].observed = file.kind]
    /\ pc' = [pc EXCEPT ![c] = "loaded"]
    /\ UNCHANGED <<file, result, ncalls, succeeded, storage, lock, made, successes>>
    /\ UNCHANGED taskVars

\* record_node_status: the record is found or created in data, and
\* _save_data opens the file for writing, which truncates it
SaveOpen(c) ==
    /\ pc[c] = "loaded"
    /\ local[c].op = "record_node_status"
    /\ local' = [local EXCEPT ![c].data =
                     record_in_data(local[c].data, local[c].node_name, "s1", "g1",
                                    local[c].is_available, local[c].check_time)]
    /\ file' = save_open(file, "none")
    /\ pc' = [pc EXCEPT ![c] = "saving"]
    /\ UNCHANGED <<result, ncalls, succeeded, storage, lock, made, successes>>
    /\ UNCHANGED taskVars

\* _save_data: json.dump writes the document and the file is closed
SaveWrite(c) ==
    /\ pc[c] = "saving"
    /\ file' = save_write(file, local[c].data, "none")
    /\ pc' = [pc EXCEPT ![c] = "saved"]
    /\ UNCHANGED <<result, ncalls, succeeded, storage, lock, local, made, successes>>
    /\ UNCHANGED taskVars

\* the with block is left and the call returns
Leave(c) ==
    /\ \/ pc[c] = "saved"
       \/ pc[c] = "loaded" /\ local[c].op = "get_statistics"
    /\ lock' = [lock EXCEPT ![storage[c]] = NoOwner]
    /\ pc' = [pc EXCEPT ![c] = "idle"]
    /\ made' = IF local[c].op = "record_node_status"
               THEN [made EXCEPT ![<<"g1", "s1", local[c].node_name>>] = @ + 1]
               ELSE made
    /\ successes' = IF local[c].op = "record_node_status" /\ local[c].is_available
                    THEN [successes EXCEPT ![<<"g1", "s1", local[c].node_name>>] = @ + 1]
                    ELSE successes
    /\ UNCHANGED <<file, result, ncalls, succeeded, storage, local>>
    /\ UNCHANGED taskVars

\* the store after one observation of n1 (check_time is 0 in every call here)
FirstTriple == <<"g1", "s1", "n1">>
FirstDoc == record_in_data(EmptyDict, "n1", "s1", "g1", TRUE, 0)

\* the callers share one instance, or each holds its own
InitConc ==
    /\ file = File("doc", FirstDoc)
    /\ result = NoResult
    /\ ncalls = 0
    /\ succeeded = {FirstTriple}
    /\ made = [t \in Triples |-> IF t = FirstTriple THEN 1 ELSE 0]
    /\ successes = [t \in Triples |-> IF t = FirstTriple THEN 1 ELSE 0]
    /\ storage \in {[c \in Callers |-> "i1"], [c \in Callers |-> IF c = "c1" THEN "i1" ELSE "i2"]}
    /\ InitCallers

NextConc == \E c \in Callers : Enter(c) \/ Load(c) \/ SaveOpen(c) \/ SaveWrite(c) \/ Leave(c)

SpecConc == InitConc /\ [][NextConc]_vars

(* ------------------- recommendation from given rankings ---------------- *)

\* get_recommended_node on the rankings get_nodes_by_reliability hands it:
\* relay A has no entry, relays B and C have the entries drawn here.

\* longest available_nodes list of these calls
MaxCandidates == 3

Relays == {"A", "B", "C"}
RankedScores == {F(2, 10), F(9, 10)}
RankedRates == {F(1, 10), F(5, 10), F(95, 100), Scale}
RankedChecks == {4, 5, 20, 100}

\* an element of reliability_rankings
Ranking(node, reliability_score, success_rate, total_checks) ==
    [node |-> node, reliability_score |-> reliability_score, success_rate |-> success_rate,
     total_checks |-> total_checks, current_status |-> "available"]

CandidateLists == UNION {[1..n -> Relays] : n \in 0..MaxCandidates}

\* before any call
InitCalls ==
    /\ file = AbsentFile
    /\ result = NoResult
    /\ ncalls = 0
    /\ succeeded = {}
    /\ storage = [c \in Callers |-> "i1"]
    /\ made = [t \in Triples |-> 0]
    /\ successes = [t \in Triples |-> 0]
    /\ InitCallers

RecommendFromRankings ==
    /\ result.op = "none"
    /\ \E sb \in RankedScores, rb \in RankedRates, cb \in RankedChecks,
          sc \in RankedScores, rc \in RankedRates, cc \in RankedChecks,
          available_nodes \in CandidateLists, current_node \in Relays \cup {NoneNode} :
          LET unsorted == <<Ranking("B", sb, rb, cb), Ranking("C", sc, rc, cc)>>
              rankings == SortDesc(unsorted, [p \in 1..2 |-> unsorted[p].reliability_score])
              reliable_nodes == nodes_by_reliability([reliability_rankings |-> rankings], 0,
                                                     Len(available_nodes))
          IN  result' = [NoResult EXCEPT !.op = "recommend_from",
                            !.reliable_nodes = rankings,
                            !.available_nodes = available_nodes,
                            !.current_node = current_node,
                            !.node = recommend_from(reliable_nodes, available_nodes,
                                                    current_node)]
    /\ UNCHANGED <<file, ncalls, succeeded>>
    /\ UNCHANGED callerVars
    /\ UNCHANGED taskVars

SpecRecommend == InitCalls /\ [][RecommendFromRankings]_vars

(* ------------------------------ claims --------------------------------- *)

\* the document persisted in a backing file ({} when it holds none)
Persisted(f) == IF f.kind = "doc" THEN f.doc ELSE EmptyDict

TripleOf(r) == <<r.proxy_group, r.service_name, r.node_name>>

\* positions of the records of triple t in the persisted document
PositionsOf(f, t) ==
    LET key == get_record_key(t[1], t[2])
    IN  IF key \notin DOMAIN Persisted(f) THEN {}
        ELSE {i \in 1..Len(Persisted(f)[key]) :
                 Get(Persisted(f)[key][i], "node_name", NoneNode) = t[3]}

HasRecord(f, t) == PositionsOf(f, t) # {}

\* the (first) persisted record of triple t
RecordOf(f, t) ==
    Persisted(f)[get_record_key(t[1], t[2])][CHOOSE i \in PositionsOf(f, t) :
                                                \A j \in PositionsOf(f, t) : i <= j]

\* persisted total_checks of triple t, 0 without a record
ChecksOf(f, t) == IF HasRecord(f, t) THEN Get(RecordOf(f, t), "total_checks", 0) ELSE 0

StoredRecords(f) ==
    UNION {{Persisted(f)[key][i] : i \in 1..Len(Persisted(f)[key])} : key \in DOMAIN Persisted(f)}

CalledTriple(res) == <<res.proxy_group, res.service_name, res.node_name>>

(* --------------------------- the estimator alone ------------------------ *)

\* _calculate_reliability_score applied to one set of arguments

\* total_checks values 0..MaxChecked are all tried
MaxChecked == 5

ScoreGrid == {0, 1, F(1, 10), F(2, 10), F(5, 10), F(9, 10), Scale - 10, Scale - 1, Scale}
ChecksGrid == 0..MaxChecked \cup {20, 100, 1000}
\* seconds: a check_time before the last one, the same, 1 s, 36 s (0.01 h),
\* 1 h, 10 h and 50 h later
ElapsedGrid == {-TimeStep, 0, 1, 36, 3600, TimeStep, 5 * TimeStep}

CalculateScore ==
    /\ result.op = "none"
    /\ \E current_score \in ScoreGrid, total_checks \in ChecksGrid, is_success \in BOOLEAN,
          time_since_last_check \in ElapsedGrid :
          result' = [NoResult EXCEPT !.op = "_calculate_reliability_score",
                        !.current_score = current_score, !.total_checks = total_checks,
                        !.is_success = is_success,
                        !.time_since_last_check = time_since_last_check,
                        !.new_score = calculate_reliability_score(
                                          current_score, total_checks, is_success,
                                          time_since_last_check)]
    /\ UNCHANGED <<file, ncalls, succeeded>>
    /\ UNCHANGED callerVars
    /\ UNCHANGED taskVars

SpecScore == InitCalls /\ [][CalculateScore]_vars

(* ---------------------- observations of one relay ----------------------- *)

\* record_node_status called for one relay at check times that do not
\* decrease (time.time() of successive calls), without I/O faults

\* calls made in one behaviour of SpecStreak
MaxStreak == 3

StreakTriple == <<"g1", "s1", "n1">>
StreakTimes == {0, 1, TimeStep, 2 * TimeStep}

\* persisted reliability_score of triple t
ScoreOf(f, t) == Get(RecordOf(f, t), "reliability_score", 0)

RecordObservation ==
    /\ ncalls < MaxStreak
    /\ \E is_available \in BOOLEAN, check_time \in StreakTimes :
          /\ HasRecord(file, StreakTriple)
                => check_time >= RecordOf(file, StreakTriple).last_check_time
          /\ LET out == record_node_status(file, StreakTriple[3], StreakTriple[2],
                                           StreakTriple[1], is_available, check_time,
                                           TRUE, "none")
             IN  /\ file' = out.file
                 /\ result' = [NoResult EXCEPT !.op = "record_node_status", !.exc = out.exc,
                                   !.proxy_group = StreakTriple[1],
                                   !.service_name = StreakTriple[2],
                                   !.node_name = StreakTriple[3]]
          /\ succeeded' = IF is_available THEN succeeded \cup {StreakTriple} ELSE succeeded
    /\ ncalls' = ncalls + 1
    /\ UNCHANGED callerVars
    /\ UNCHANGED taskVars

SpecStreak == InitCalls /\ [][RecordObservation]_vars

(* ------------------------ pruning among the calls ----------------------- *)

\* startup_cleanup next to record_node_status and the reads
NextPrune ==
    \/ NextRead
    \/ StartupCleanup

SpecPrune == Init /\ [][NextPrune]_vars

(* ------------------------- counted observations ------------------------ *)

\* record_node_status calls counted per triple, without I/O faults, from an
\* absent backing file; then one read

\* calls made in one behaviour of SpecTally
MaxTally == 3

RecordCounted ==
    /\ Ready
    /\ ncalls < MaxTally
    /\ \E node_name \in Nodes, is_available \in BOOLEAN, check_time \in Times :
          LET t == <<"g1", "s1", node_name>>
              out == record_node_status(file, node_name, "s1", "g1", is_available,
                                        check_time, TRUE, "none")
          IN  /\ file' = out.file
              /\ result' = [NoResult EXCEPT !.op = "record_node_status", !.exc = out.exc,
                                !.proxy_group = "g1", !.service_name = "s1",
                                !.node_name = node_name, !.is_success = is_available]
              /\ succeeded' = IF is_available THEN succeeded \cup {t} ELSE succeeded
              /\ made' = [made EXCEPT ![t] = @ + 1]
              /\ successes' = [successes EXCEPT ![t] = IF is_available THEN @ + 1 ELSE @]
    /\ ncalls' = ncalls + 1
    /\ UNCHANGED <<storage, lock, pc, local>>
    /\ UNCHANGED taskVars

NextTally ==
    \/ RecordCounted
    \/ GetStatistics
    \/ GetRecommendedNode

SpecTally == InitCalls /\ [][NextTally]_vars

(* --------------------------- monitoring tasks --------------------------- *)

\* run_multiple_tasks and run_task.  A step of a task runs from one await
\* to the next; the Clash controller and the probed service are the
\* environment: each request to the controller may fail, each probe may
\* report the service available or not.

\* record_node_status calls of one behaviour of SpecTask whose save reaches
\* the backing file; later saves fail at open(.., 'w')
MaxSaves == 2

\* switches one task makes without a successful probe or a pause in one
\* behaviour of SpecTask; later select_proxy requests fail
MaxSwitches == 3

\* TaskConfig.proxy_group_name and TaskConfig.service_name
TaskGroup(t) == "g1"
TaskService(t) == IF t = "t1" THEN "s1" ELSE "s2"
\* group_info["all"] of a proxy group, in the order of the configuration
GroupAll == <<"n1", "n2">>
\* the members the liveness queries can leave in alive_candidates
AliveLists == {<<>>, <<"n1">>, <<"n2">>, GroupAll}
\* MonitoringConfig.max_rotations values
RotationLimits == {0, 2}

\* select_next_proxy_in_group up to client.select_proxy: the exception it
\* leaves with, or the recommended relay.  up: get_proxy(group) answers;
\* alive_candidates: the members not reported dead; switched: select_proxy
\* succeeds
select_next_proxy_in_group(f, now, up, alive_candidates, switched, proxy_group_name, service_name) ==
    IF ~up THEN Raised("HTTPError")
    ELSE IF Len(GroupAll) = 0 THEN Raised("ValueError")
    ELSE IF Len(alive_candidates) = 0 THEN Raised("RuntimeError")
    ELSE LET ld == load_data(f, TRUE)
             recommended == get_recommended_node(ld.val, proxy_group_name, service_name,
                                                 alive_candidates, now)
         IN  IF ld.exc # "" THEN Raised(ld.exc)
             ELSE IF recommended.exc # "" THEN Raised(recommended.exc)
             ELSE IF recommended.val = NoneNode THEN Raised("RuntimeError")
             ELSE IF ~switched THEN Raised("HTTPError")
             ELSE Returned(recommended.val)

\* the answers to the liveness query of a member: alive is true (or
\* missing), alive is false, or the request fails with an httpx.HTTPError
LivenessReports == {"alive", "dead", "error"}

\* a filter that keeps every member of the group
alive_candidates_unfiltered(candidates, reports) == candidates

\* alive_candidates: the members that are not reported dead
alive_candidates_of(candidates, reports) ==
    SelectSeq(candidates, LAMBDA candidate : reports[candidate] # "dead")

\* the write fault of the next save of a task
TaskWriteFaults == IF ncalls < MaxSaves THEN {"none", "open"} ELSE {"open"}

InitTask ==
    /\ file \in {AbsentFile, File("doc", FirstDoc)}
    /\ result = NoResult
    /\ ncalls = 0
    /\ succeeded = {}
    /\ storage = [c \in Callers |-> "i1"]
    /\ made = [t \in Triples |-> 0]
    /\ successes = [t \in Triples |-> 0]
    /\ lock = [i \in Instances |-> NoOwner]
    /\ pc = [c \in Callers |-> "idle"]
    /\ local = [c \in Callers |-> NoCall]
    /\ task = [t \in Tasks |-> NoTask]
    /\ clash \in {[g \in Groups |-> now] : now \in Nodes}
    /\ monitoring \in [once : BOOLEAN, max_rotations : RotationLimits]

\* run_multiple_tasks: startup_cleanup, then one asyncio task per enabled
\* TaskConfig
RunMultipleTasks ==
    /\ \A t \in DOMAIN task : task[t].pc = "not started"
    /\ \E st_size \in {0, CleanupThreshold}, now \in Times :
          file' = startup_cleanup(file, TRUE, st_size, now, "none").file
    /\ task' = [t \in DOMAIN task |-> [NoTask EXCEPT !.pc = "loop"]]
    /\ UNCHANGED <<result, ncalls, succeeded, clash, monitoring>>
    /\ UNCHANGED callerVars

\* run_task, the head of the loop: the relay the group has selected, None
\* when the controller does not answer
GetCurrentNode(t) ==
    /\ task[t].pc = "loop"
    /\ \E up \in BOOLEAN :
          task' = [task EXCEPT ![t].pc = "probe",
                               ![t].current_node = IF up THEN clash[TaskGroup(t)]
                                                   ELSE NoneNode]
    /\ UNCHANGED <<clash, monitoring>>
    /\ UNCHANGED storeVars
    /\ UNCHANGED callerVars

\* run_task, the probe: probe_service_multi returns its verdict;
\* probe_service returns it or raises, which counts as not available
Probe(t) ==
    /\ task[t].pc = "probe"
    /\ \E ok \in BOOLEAN :
          task' = [task EXCEPT ![t].pc = "record", ![t].ok = ok,
                               ![t].is_new_proxy = FALSE]
    /\ UNCHANGED <<clash, monitoring>>
    /\ UNCHANGED storeVars
    /\ UNCHANGED callerVars

\* run_task from the record of the probed relay to the end of the success
\* branch: an exception of record_node_status leaves run_task; after a
\* successful probe the task returns when once is set, else sleeps and
\* loops; after a failed probe it goes on to the switch
RecordProbe(t) ==
    /\ task[t].pc = "record"
    /\ \E check_time \in Times, wfault \in TaskWriteFaults :
          LET recorded == task[t].current_node # NoneNode
              out == IF recorded
                     THEN record_node_status(file, task[t].current_node, TaskService(t),
                                             TaskGroup(t), task[t].ok, check_time,
                                             TRUE, wfault)
                     ELSE [exc |-> "", file |-> file]
          IN  /\ file' = out.file
              /\ ncalls' = IF recorded /\ wfault = "none" THEN ncalls + 1 ELSE ncalls
              /\ result' = IF recorded
                           THEN [NoResult EXCEPT !.op = "record_node_status",
                                     !.exc = out.exc, !.proxy_group = TaskGroup(t),
                                     !.service_name = TaskService(t),
                                     !.node_name = task[t].current_node,
                                     !.is_success = task[t].ok,
                                     !.fault = wfault # "none"]
                           ELSE result
              /\ succeeded' = IF recorded /\ task[t].ok
                              THEN succeeded \cup {<<TaskGroup(t), TaskService(t),
                                                     task[t].current_node>>}
                              ELSE succeeded
              /\ task' = [task EXCEPT
                            ![t].pc = IF out.exc # "" THEN "raised"
                                      ELSE IF ~task[t].ok THEN "select"
                                      ELSE IF monitoring.once THEN "returned"
                                      ELSE "loop",
                            ![t].rotations = IF out.exc = "" /\ task[t].ok THEN 0 ELSE @]
    /\ UNCHANGED <<clash, monitoring>>
    /\ UNCHANGED callerVars

\* a switch step that counts a rotation also when the selection raised
SelectNextCounting(t) ==
    /\ task[t].pc = "select"
    /\ \E up \in BOOLEAN, alive_candidates \in AliveLists,
          switched \in (IF task[t].rotations < MaxSwitches THEN BOOLEAN ELSE {FALSE}) :
          LET out == select_next_proxy_in_group(file, clash[TaskGroup(t)], up,
                                                alive_candidates, switched,
                                                TaskGroup(t), TaskService(t))
          IN  IF out.exc # ""
              THEN /\ task' = [task EXCEPT ![t].pc = "loop",
                                           ![t].rotations = Min(@ + 1, MaxSwitches)]
                   /\ clash' = clash
              ELSE /\ task' = [task EXCEPT ![t].pc = "switched",
                                           ![t].next_proxy = out.val,
                                           ![t].rotations = @ + 1]
                   /\ clash' = [clash EXCEPT ![TaskGroup(t)] = out.val]
    /\ UNCHANGED monitoring
    /\ UNCHANGED storeVars
    /\ UNCHANGED callerVars

\* run_task after a failed probe: select_next_proxy_in_group; when it
\* raises, the task sleeps and loops; else the group is switched and
\* rotations grows
SelectNext(t) ==
    /\ task[t].pc = "select"
    /\ \E up \in BOOLEAN, alive_candidates \in AliveLists,
          switched \in (IF task[t].rotations < MaxSwitches THEN BOOLEAN ELSE {FALSE}) :
          LET out == select_next_proxy_in_group(file, clash[TaskGroup(t)], up,
                                                alive_candidates, switched,
                                                TaskGroup(t), TaskService(t))
          IN  IF out.exc # ""
              THEN /\ task' = [task EXCEPT ![t].pc = "loop"]
                   /\ clash' = clash
              ELSE /\ task' = [task EXCEPT ![t].pc = "switched",
                                           ![t].next_proxy = out.val,
                                           ![t].rotations = @ + 1]
                   /\ clash' = [clash EXCEPT ![TaskGroup(t)] = out.val]
    /\ UNCHANGED monitoring
    /\ UNCHANGED storeVars
    /\ UNCHANGED callerVars

\* run_task after a switch: the relay switched to is recorded as not
\* available; an exception is caught (sleep, loop); when max_rotations is
\* reached the task pauses and rotations restarts from 0
RecordSwitch(t) ==
    /\ task[t].pc = "switched"
    /\ \E check_time \in Times, wfault \in TaskWriteFaults :
          LET out == record_node_status(file, task[t].next_proxy, TaskService(t),
                                        TaskGroup(t), FALSE, check_time, TRUE, wfault)
              paused == /\ out.exc = ""
                        /\ monitoring.max_rotations > 0
                        /\ task[t].rotations >= monitoring.max_rotations
          IN  /\ file' = out.file
              /\ ncalls' = IF wfault = "none" THEN ncalls + 1 ELSE ncalls
              /\ result' = [NoResult EXCEPT !.op = "record_node_status",
                                !.exc = out.exc, !.proxy_group = TaskGroup(t),
                                !.service_name = TaskService(t),
                                !.node_name = task[t].next_proxy,
                                !.fault = wfault # "none"]
              /\ task' = [task EXCEPT ![t].pc = "loop",
                                      ![t].rotations = IF paused THEN 0 ELSE @]
    /\ UNCHANGED <<succeeded, clash, monitoring>>
    /\ UNCHANGED callerVars

(* ------------------------- one selection alone -------------------------- *)

\* select_next_proxy_in_group called once on a store filled by counted
\* observations

InitSelect ==
    /\ file = AbsentFile
    /\ result = NoResult
    /\ ncalls = 0
    /\ succeeded = {}
    /\ storage = [c \in Callers |-> "i1"]
    /\ made = [t \in Triples |-> 0]
    /\ successes = [t \in Triples |-> 0]
    /\ lock = [i \in Instances |-> NoOwner]
    /\ pc = [c \in Callers |-> "idle"]
    /\ local = [c \in Callers |-> NoCall]
    /\ task = [t \in Tasks |-> NoTask]
    /\ clash \in {[g \in Groups |-> now] : now \in Nodes \cup {NoneNode}}
    /\ monitoring = DefaultMonitoring

SelectOnce ==
    /\ result.op \in {"none", "record_node_status"}
    /\ \E up \in BOOLEAN, reports \in [Nodes -> LivenessReports], switched \in BOOLEAN :
          LET alive_candidates == alive_candidates_of(GroupAll, reports)
              out == select_next_proxy_in_group(file, clash["g1"], up, alive_candidates,
                                                switched, "g1", "s1")
          IN  /\ result' = [NoResult EXCEPT !.op = "select_next_proxy_in_group",
                                !.exc = out.exc, !.proxy_group = "g1",
                                !.service_name = "s1", !.reports = reports,
                                !.available_nodes = alive_candidates,
                                !.current_node = clash["g1"], !.fault = ~up \/ ~switched,
                                !.node = IF out.exc = "" THEN out.val ELSE NoneNode]
              /\ clash' = IF out.exc = "" THEN [clash EXCEPT !["g1"] = out.val] ELSE clash
    /\ UNCHANGED <<file, ncalls, succeeded, task, monitoring>>
    /\ UNCHANGED callerVars

\* the observations come before the selection
RecordBeforeSelect ==
    /\ result.op # "select_next_proxy_in_group"
    /\ RecordCounted

NextSelect ==
    \/ RecordBeforeSelect
    \/ SelectOnce

SpecSelect == InitSelect /\ [][NextSelect]_vars

RunTask(t) ==
    GetCurrentNode(t) \/ Probe(t) \/ RecordProbe(t) \/ SelectNext(t) \/ RecordSwitch(t)

NextTask == RunMultipleTasks \/ \E t \in Tasks : RunTask(t)

SpecTask == InitTask /\ [][NextTask]_vars

\* the tasks started on a backing file the store did not write: a JSON
\* document that is a list
InitTaskAnyFile ==
    /\ file \in {AbsentFile, File("list", EmptyDict)}
    /\ result = NoResult
    /\ ncalls = 0
    /\ succeeded = {}
    /\ storage = [c \in Callers |-> "i1"]
    /\ made = [t \in Triples |-> 0]
    /\ successes = [t \in Triples |-> 0]
    /\ lock = [i \in Instances |-> NoOwner]
    /\ pc = [c \in Callers |-> "idle"]
    /\ local = [c \in Callers |-> NoCall]
    /\ task = [t \in Tasks |-> NoTask]
    /\ clash \in {[g \in Groups |-> now] : now \in Nodes}
    /\ monitoring \in [once : BOOLEAN, max_rotations : RotationLimits]

SpecTaskAnyFile == InitTaskAnyFile /\ [][NextTask]_vars

\* two enabled tasks that monitor the same proxy group for two services
ConcurrentTasks == {"t1", "t2"}

InitConcurrentTasks ==
    /\ file = AbsentFile
    /\ result = NoResult
    /\ ncalls = 0
    /\ succeeded = {}
    /\ storage = [c \in Callers |-> "i1"]
    /\ made = [t \in Triples |-> 0]
    /\ successes = [t \in Triples |-> 0]
    /\ lock = [i \in Instances |-> NoOwner]
    /\ pc = [c \in Callers |-> "idle"]
    /\ local = [c \in Callers |-> NoCall]
    /\ task = [t \in ConcurrentTasks |-> NoTask]
    /\ clash = [g \in Groups |-> "n1"]
    /\ monitoring = [once |-> TRUE, max_rotations |-> 0]

\* switches after which a task of SpecConcurrentTasks stops at the head of
\* its loop
MaxRounds == 1

\* a step of one of the tasks
ConcurrentStep(t) ==
    /\ task[t].pc = "loop" => task[t].rotations < MaxRounds
    /\ RunTask(t)

NextConcurrentTasks == RunMultipleTasks \/ \E t \in ConcurrentTasks : ConcurrentStep(t)

SpecConcurrentTasks == InitConcurrentTasks /\ [][NextConcurrentTasks]_vars

\* the event loop keeps running a task that can take a step
SpecTaskFair == SpecTask /\ WF_vars(NextTask)

\* asyncio.gather in run_multiple_tasks has every result
AllReturned == \A t \in Tasks : task[t].pc = "returned"

\* C2: in every reachable state the list under a group#service key holds at
\* most one record per relay name: record_node_status updates the record of
\* a triple in place and never appends a second one.
C2_OneRecordPerTriple ==
    \A key \in DOMAIN Persisted(file) :
        \A i, j \in 1..Len(Persisted(file)[key]) :
            (/\ i # j
             /\ "node_name" \in DOMAIN Persisted(file)[key][i]
             /\ "node_name" \in DOMAIN Persisted(file)[key][j])
            => Persisted(file)[key][i].node_name # Persisted(file)[key][j].node_name

\* a record was updated in place next to the record of another relay
C2_Witness ==
    /\ result.op = "record_node_status"
    /\ \E key \in DOMAIN Persisted(file) :
          /\ Len(Persisted(file)[key]) = 2
          /\ \E i \in 1..2 : Get(Persisted(file)[key][i], "total_checks", 0) >= 2

\* C3 (as claimed): every record_node_status call that returns without an
\* I/O fault raises the persisted total_checks of its triple by exactly 1,
\* and no step, load and save failures included, lowers the total_checks of
\* a triple unless startup_cleanup pruned its record.
C3_ChecksGrowByOne ==
    [][/\ (result'.op = "record_node_status" /\ ~result'.fault /\ result'.exc = "")
          => ChecksOf(file', CalledTriple(result')) = ChecksOf(file, CalledTriple(result')) + 1
       /\ \A t \in Triples :
             \/ ChecksOf(file', t) >= ChecksOf(file, t)
             \/ result'.op = "startup_cleanup" /\ ~HasRecord(file', t)]_vars

\* C4: in every reachable state every stored reliability_score lies in
\* [0.0, 1.0] (a record without the field counts as 0.0), whatever the
\* outcomes and check times recorded.
C4_ScoreInRange ==
    \A r \in StoredRecords(file) :
        Get(r, "reliability_score", 0) >= 0 /\ Get(r, "reliability_score", 0) <= Scale

\* a record updated with a check_time earlier than its last check
C4_Witness ==
    /\ result.op = "record_node_status"
    /\ \E r \in StoredRecords(file) :
          /\ Get(r, "total_checks", 0) >= 2
          /\ Get(r, "last_check_time", 0) = 0
          /\ Get(r, "last_available_time", None) = TimeStep

\* C5 (as claimed): every stored record has a last_available_time exactly
\* when a record_node_status call for its triple had is_available = true,
\* and a last_available_time is never later than last_check_time.
C5_LastAvailable ==
    \A t \in Triples :
        HasRecord(file, t) =>
            LET r == RecordOf(file, t)
                last_available_time == Get(r, "last_available_time", None)
            IN  /\ (last_available_time # None) <=> (t \in succeeded)
                /\ last_available_time # None => last_available_time <= r.last_check_time

\* C6 (as claimed): a record_node_status call leaves every record of another
\* triple present and unchanged, load and save failures included, and a
\* record disappears only when startup_cleanup prunes it.
C6_OtherRecordsKept ==
    [][/\ result'.op = "record_node_status"
          => \A t \in Triples \ {CalledTriple(result')} :
                HasRecord(file, t)
                => HasRecord(file', t) /\ RecordOf(file', t) = RecordOf(file, t)
       /\ \A t \in Triples :
             HasRecord(file, t) /\ ~HasRecord(file', t) => result'.op = "startup_cleanup"]_vars

BadKinds == {"absent", "partial", "badutf8", "list", "null"}

\* C8 (as claimed): when the backing file is absent, unreadable or no
\* well-formed store document, the load step returns an empty mapping,
\* get_node_history and get_statistics return their empty results and
\* get_recommended_node scores every candidate as having no history.
C8_CorruptReadsEmpty ==
    (result.op \in ReadOps /\ file.kind \in BadKinds)
    => /\ load_data(file, TRUE) = Returned(PyDict(EmptyDict))
       /\ result.exc = ""
       /\ result.records = <<>>
       /\ result.stats = EmptyStatistics
       /\ result.op = "get_recommended_node"
          => result.node = recommend_from(<<>>, result.available_nodes, result.current_node)

\* C9 (as claimed): record_node_status, get_recommended_node, get_statistics
\* and startup_cleanup return without raising in every state of the backing
\* file.
C9_NeverRaises ==
    result.op \in {"record_node_status", "get_recommended_node", "get_statistics",
                   "startup_cleanup"}
    => result.exc = ""

\* C10: a non-null result of get_recommended_node is an element of
\* available_nodes.
C10_RecommendedIsAvailable ==
    (result.op = "get_recommended_node" /\ result.exc = "" /\ result.node # NoneNode)
    => \E i \in 1..Len(result.available_nodes) : result.available_nodes[i] = result.node

\* a recommendation for one available relay while both relays have history
C10_Witness ==
    /\ result.op = "get_recommended_node"
    /\ result.node # NoneNode
    /\ Len(result.available_nodes) = 1
    /\ \A n \in Nodes : HasRecord(file, <<result.proxy_group, result.service_name, n>>)
    /\ ChecksOf(file, <<result.proxy_group, result.service_name, "n2">>) >= 1

\* C1 (as claimed): whichever instances the callers hold, once all calls
\* have completed the persisted total_checks of every triple is the number
\* of record_node_status calls made for it: no update is lost.
C1_NoLostUpdate ==
    (\A c \in Callers : pc[c] = "idle")
    => \A t \in Triples : ChecksOf(file, t) = made[t]

\* C7 (as claimed): no load, by any caller, observes a partially written
\* document.
C7_NoPartialRead ==
    \A c \in Callers : local[c].observed # "partial"

\* the rankings get_recommended_node obtains from get_nodes_by_reliability
\* for the call recorded in res, on backing file f
RankingsOf(f, res) ==
    LET s == get_statistics(load_data(f, ~res.fault).val, res.proxy_group, res.service_name)
    IN  nodes_by_reliability(s.val, 0, Len(res.available_nodes))

\* backing files as _save_data leaves them (complete or cut short) or absent
StoreWritten == {"absent", "doc", "partial"}

C12_PrefersOtherNode ==
    (result.op = "get_recommended_node" /\ result.exc = "")
    => LET available_nodes == result.available_nodes
           score(i) == candidate_score(RankingsOf(file, result), available_nodes[i])
           others == {i \in 1..Len(available_nodes) : available_nodes[i] # result.current_node}
           best == CHOOSE i \in others :
                       \A j \in others : score(j) < score(i) \/ (score(j) = score(i) /\ i <= j)
       IN  /\ others # {} => result.node = available_nodes[best]
           /\ result.node = result.current_node => others = {}

\* the current node has the greatest final_score and another one is returned
C12_Witness ==
    /\ result.op = "get_recommended_node"
    /\ Len(result.available_nodes) = 2
    /\ result.current_node \in Nodes
    /\ result.node \in Nodes \ {result.current_node}
    /\ candidate_score(RankingsOf(file, result), result.current_node)
          > candidate_score(RankingsOf(file, result), result.node)

C14_ThreeFailures ==
    /\ [](ChecksOf(file, StreakTriple) = 1
            => ScoreOf(file, StreakTriple)
                 = (IF StreakTriple \in succeeded THEN F(5, 10) ELSE F(1, 10)))
    /\ [][(HasRecord(file, StreakTriple) /\ StreakTriple \notin succeeded')
            => ScoreOf(file', StreakTriple) < ScoreOf(file, StreakTriple)]_vars
    /\ []((ChecksOf(file, StreakTriple) = 3 /\ StreakTriple \notin succeeded)
            => ScoreOf(file, StreakTriple) < F(5, 100))

\* three failures, the last one ten hours after the second
C14_Witness ==
    /\ ChecksOf(file, StreakTriple) = 3
    /\ StreakTriple \notin succeeded
    /\ RecordOf(file, StreakTriple).last_check_time = 2 * TimeStep
    /\ ScoreOf(file, StreakTriple) > 0
    /\ ScoreOf(file, StreakTriple) < F(5, 100)

\* C15: for a current_score in [0, 1], total_checks >= 0 and an elapsed time
\* >= 0, the estimator returns at least current_score on a success and at
\* most current_score on a failure.
C15_SuccessUpFailureDown ==
    (result.op = "_calculate_reliability_score" /\ result.time_since_last_check >= 0)
    => /\ result.is_success => result.new_score >= result.current_score
       /\ ~result.is_success => result.new_score <= result.current_score

\* a success that raised and a failure that lowered a score, ten hours on
C15_Witness ==
    /\ result.op = "_calculate_reliability_score"
    /\ result.time_since_last_check = TimeStep
    /\ result.current_score = F(9, 10)
    /\ result.total_checks = 100
    /\ result.is_success
    /\ result.new_score > result.current_score

\* C16: a failure leaves at most 0.7 times the score and, for a positive
\* score, more than 0.5 times the score, whatever total_checks and the time
\* since the last check (new_score is rounded down to the unit 1 / Scale,
\* so the lower bound is taken on new_score plus one unit).
C16_FailurePenalty ==
    (result.op = "_calculate_reliability_score" /\ ~result.is_success)
    => /\ 10 * result.new_score <= 7 * result.current_score
       /\ result.current_score > 0 => 2 * (result.new_score + 1) > result.current_score

\* a failure recorded with a check time before the last one
C16_Witness ==
    /\ result.op = "_calculate_reliability_score"
    /\ ~result.is_success
    /\ result.time_since_last_check < 0
    /\ result.total_checks = 1000
    /\ result.current_score = Scale
    /\ result.new_score > F(5, 10)
    /\ result.new_score < F(7, 10)

C18_SmallFileUntouched ==
    /\ [](\A now \in Nows :
            cleanup_old_records(Persisted(file), file.kind # "absent",
                                CleanupThreshold - 1, now) = Persisted(file))
    /\ [][(/\ result'.op = "startup_cleanup"
           /\ result'.st_size < CleanupThreshold \/ file.kind = "absent")
          => file' = file]_vars

\* startup_cleanup ran on a small file that holds a record older than 30
\* days and a record without last_check_time
C18_Witness ==
    /\ result.op = "startup_cleanup"
    /\ result.st_size < CleanupThreshold
    /\ ~result.fault
    /\ result.now = RetentionSec + TimeStep
    /\ \E r \in StoredRecords(file) : "last_check_time" \notin DOMAIN r
    /\ \E r \in StoredRecords(file) :
          "last_check_time" \in DOMAIN r /\ r.last_check_time <= result.now - RetentionSec

C20_OnceTerminates ==
    monitoring.once ~> AllReturned

\* every ranking get_statistics computes for the call recorded in res, on
\* backing file f
AllRankingsOf(f, res) ==
    get_statistics(load_data(f, ~res.fault).val, res.proxy_group,
                   res.service_name).val.reliability_rankings

\* C21 (as claimed): in get_recommended_node every name of available_nodes
\* that has a stored record under (group, service) gets the final_score of
\* the history formula on that record, however many other relays have
\* records there, and only names without a stored record get the prior 0.3.
C21_StoredNamesUseHistory ==
    (result.op = "get_recommended_node" /\ result.exc = "" /\ file.kind \in StoreWritten)
    => \A i \in 1..Len(result.available_nodes) :
          candidate_score(RankingsOf(file, result), result.available_nodes[i])
              = candidate_score(AllRankingsOf(file, result), result.available_nodes[i])

\* the sum of f over the triples of S
RECURSIVE Total(_, _)
Total(f, S) ==
    IF S = {} THEN 0 ELSE LET t == CHOOSE x \in S : TRUE IN f[t] + Total(f, S \ {t})

\* the triples of a (group, service)
TriplesOf(proxy_group, service_name) ==
    {t \in Triples : t[1] = proxy_group /\ t[2] = service_name}

\* C22 (as claimed): after any sequence of record_node_status calls the
\* success_rate that get_statistics reports for a relay, and the one
\* get_recommended_node uses for it, is (calls of the triple with
\* is_available = true) / (calls of the triple); the overall total_checks of
\* get_statistics is the number of calls for the (group, service) and the
\* overall success_rate the share of successful ones.
C22_RatesAreRatios ==
    LET rate_ok(r) ==
            LET t == <<result.proxy_group, result.service_name, r.node>>
            IN  r.success_rate = FDiv(successes[t], made[t])
        group == TriplesOf(result.proxy_group, result.service_name)
    IN  /\ (result.op = "get_statistics" /\ result.exc = "" /\ ~result.fault)
           => /\ \A p \in 1..Len(result.stats.reliability_rankings) :
                    rate_ok(result.stats.reliability_rankings[p])
              /\ result.stats.total_checks = Total(made, group)
              /\ Total(made, group) > 0
                    => result.stats.success_rate
                          = FDiv(Total(successes, group), Total(made, group))
        /\ (result.op = "get_recommended_node" /\ result.exc = "" /\ ~result.fault)
           => \A p \in 1..Len(RankingsOf(file, result)) :
                 rate_ok(RankingsOf(file, result)[p])

\* the confidence boost inside the final_score of a ranked relay
BoostOf(node_info) ==
    history_score(node_info)
        - (FMul(F(7, 10), node_info.reliability_score) + FMul(F(3, 10), node_info.success_rate))

\* C23: among the candidates that differ from current_node (among all of
\* them when none differs) the recommendation is one of maximal final_score,
\* the one of smallest index in available_nodes among equals; the boost in a
\* final_score is 0 unless success_rate > 0.5 and total_checks >= 5, and is
\* never more than 0.1.
C23_BestOfPoolAndBoost ==
    (result.op = "recommend_from" /\ Len(result.available_nodes) > 0)
    => LET available_nodes == result.available_nodes
           score(i) == candidate_score(result.reliable_nodes, available_nodes[i])
           others == {i \in 1..Len(available_nodes) : available_nodes[i] # result.current_node}
           pool == IF others # {} THEN others ELSE 1..Len(available_nodes)
       IN  /\ \E i \in pool :
                 /\ result.node = available_nodes[i]
                 /\ \A j \in pool : score(j) <= score(i)
                 /\ \A j \in pool : (score(j) = score(i) /\ j < i)
                                        => available_nodes[j] = available_nodes[i]
           /\ \A p \in 1..Len(result.reliable_nodes) :
                 LET r == result.reliable_nodes[p]
                 IN  /\ BoostOf(r) >= 0 /\ BoostOf(r) <= F(1, 10)
                     /\ ~(r.success_rate > F(5, 10) /\ r.total_checks >= 5) => BoostOf(r) = 0

\* two ranked relays with the same boosted final_score are candidates next
\* to an unseen one, and the first of the two in available_nodes is returned
C23_Witness ==
    /\ result.op = "recommend_from"
    /\ result.available_nodes = <<"A", "C", "B">>
    /\ result.current_node = NoneNode
    /\ Len(result.reliable_nodes) = 2
    /\ BoostOf(result.reliable_nodes[1]) = F(1, 10)
    /\ candidate_score(result.reliable_nodes, "B") = candidate_score(result.reliable_nodes, "C")
    /\ result.node = "C"

\* the records of a list that are not older than 30 days at time now
NotOlderThanWindow(records, now) ==
    SelectSeq(records, LAMBDA r : r.last_check_time >= now - RetentionSec)

\* C24 (as claimed): when startup_cleanup prunes a backing file of 5 MiB or
\* more, it keeps, in their order and unchanged, exactly the records whose
\* last_check_time is not older than 30 days (a record exactly 30 days old
\* is kept), and leaves no key with an empty list.
C24_PrunesOlderThanWindow ==
    [][(/\ result'.op = "startup_cleanup"
        /\ result'.exc = "" /\ ~result'.fault
        /\ result'.st_size >= CleanupThreshold
        /\ file.kind = "doc")
       => LET data == Persisted(file)
              cleaned == Persisted(file')
              timed == {key \in DOMAIN data :
                           \A i \in 1..Len(data[key]) :
                               "last_check_time" \in DOMAIN data[key][i]}
          IN  /\ \A key \in timed :
                    IF NotOlderThanWindow(data[key], result'.now) = <<>>
                    THEN key \notin DOMAIN cleaned
                    ELSE /\ key \in DOMAIN cleaned
                         /\ cleaned[key] = NotOlderThanWindow(data[key], result'.now)
              /\ \A key \in DOMAIN cleaned : cleaned[key] # <<>>]_vars

\* the number of records in the persisted document
RECURSIVE CountIn(_, _)
CountIn(doc, keys) ==
    IF keys = {} THEN 0
    ELSE LET key == CHOOSE k \in keys : TRUE IN Len(doc[key]) + CountIn(doc, keys \ {key})
RecordCount(f) == CountIn(Persisted(f), DOMAIN Persisted(f))

TaskTriple(t, node) == <<TaskGroup(t), TaskService(t), node>>

\* the steps of task t after a failed probe
FailureRecorded(t) == task[t].pc = "record" /\ task'[t].pc = "select"
GroupSwitched(t) == task[t].pc = "select" /\ task'[t].pc = "switched"
SelectionFailed(t) == task[t].pc = "select" /\ task'[t].pc = "loop"
SwitchRecorded(t) == task[t].pc = "switched" /\ task'[t].pc # "switched"

\* what C26 says of the steps that follow the record of the failed probe
AfterFailureInOrder(t) ==
    /\ task'[t].pc = "select" => task[t].pc \in {"record", "select"}
    /\ task'[t].pc = "switched" => task[t].pc \in {"select", "switched"}
    /\ task'[t].pc = "probe" => task[t].pc \in {"loop", "probe"}
    /\ GroupSwitched(t)
          => /\ clash'[TaskGroup(t)] = task'[t].next_proxy
             /\ task'[t].rotations = task[t].rotations + 1
             /\ file' = file
    /\ SelectionFailed(t)
          => /\ task'[t].rotations = task[t].rotations
             /\ clash' = clash
             /\ file' = file
    /\ SwitchRecorded(t)
          => /\ result'.op = "record_node_status"
             /\ result'.node_name = task[t].next_proxy
             /\ ~result'.is_success
             /\ ~result'.fault
                   => /\ ChecksOf(file', TaskTriple(t, task[t].next_proxy))
                            = ChecksOf(file, TaskTriple(t, task[t].next_proxy)) + 1
                      /\ RecordCount(file') <= RecordCount(file) + 1

\* C26 (as claimed): after a failed probe the failure is recorded for the
\* relay that was current, then the recommendation is requested and the
\* group switched, then exactly one observation is recorded for the relay
\* switched to, before it is probed; a failed recommendation or switch
\* records nothing and leaves rotations as it is.
C26_FailureThenSwitchThenRecord ==
    [][\A t \in Tasks :
          /\ FailureRecorded(t)
                => /\ task[t].current_node # NoneNode
                   /\ result'.op = "record_node_status"
                   /\ result'.node_name = task[t].current_node
                   /\ ~result'.is_success
          /\ AfterFailureInOrder(t)]_vars

\* C26 (amended): as C26 for a task that could read the current relay from
\* the controller; when it could not, no failure is recorded before the
\* selection.
C26_KnownRelayFailureRecorded ==
    [][\A t \in Tasks :
          /\ FailureRecorded(t)
                => IF task[t].current_node # NoneNode
                   THEN /\ result'.op = "record_node_status"
                        /\ result'.node_name = task[t].current_node
                        /\ ~result'.is_success
                        /\ ~result'.fault
                              => ChecksOf(file', TaskTriple(t, task[t].current_node))
                                    = ChecksOf(file, TaskTriple(t, task[t].current_node)) + 1
                   ELSE file' = file /\ result' = result
          /\ AfterFailureInOrder(t)]_vars

\* a task recorded the failure of its relay, switched to another relay and
\* recorded the switch
C26_Witness ==
    \E t \in Tasks :
        /\ task[t].pc = "loop"
        /\ task[t].current_node \in Nodes
        /\ task[t].next_proxy \in Nodes \ {task[t].current_node}
        /\ clash[TaskGroup(t)] = task[t].next_proxy
        /\ result.op = "record_node_status" /\ ~result.fault
        /\ result.node_name = task[t].next_proxy
        /\ HasRecord(file, TaskTriple(t, task[t].current_node))
        /\ HasRecord(file, TaskTriple(t, task[t].next_proxy))

\* the members of a sequence
Members(candidates) == {candidates[i] : i \in 1..Len(candidates)}

\* C27: select_next_proxy_in_group switches the group only to a member of
\* its 'all' list whose liveness query did not report alive = false (a
\* query that failed with an HTTP error counts as eligible); when every
\* member is reported dead it raises and the group stays as it is.
C27_SwitchesToEligibleOnly ==
    [][result'.op = "select_next_proxy_in_group"
       => /\ clash' # clash
                => /\ result'.exc = ""
                   /\ clash' = [clash EXCEPT !["g1"] = result'.node]
          /\ result'.exc = ""
                => /\ result'.node \in Members(GroupAll)
                   /\ result'.reports[result'.node] # "dead"
                   /\ clash'["g1"] = result'.node
          /\ (\A candidate \in Members(GroupAll) : result'.reports[candidate] = "dead")
                => result'.exc # "" /\ clash' = clash]_vars

\* the group was switched to a member whose liveness query failed, the other
\* member being reported dead
C27_Witness ==
    /\ result.op = "select_next_proxy_in_group"
    /\ result.exc = ""
    /\ result.reports[result.node] = "error"
    /\ \E candidate \in Members(GroupAll) : result.reports[candidate] = "dead"
    /\ clash["g1"] = result.node
    /\ HasRecord(file, <<"g1", "s1", result.node>>)

\* C28 (as claimed): with max_rotations > 0 the rotation counter of a task
\* is within 0..max_rotations in every state; it is 0 after a successful
\* probe, grows by exactly 1 with a switch, and is back at 0 (the pause) once
\* the switch that made it reach max_rotations has been recorded.
C28_RotationsWithinLimit ==
    /\ [](\A t \in Tasks :
            monitoring.max_rotations > 0
                => task[t].rotations \in 0..monitoring.max_rotations)
    /\ [][\A t \in Tasks :
             monitoring.max_rotations > 0
                 => /\ (task[t].pc = "record" /\ task[t].ok /\ task'[t].pc # "raised")
                          => task'[t].rotations = 0
                    /\ GroupSwitched(t) => task'[t].rotations = task[t].rotations + 1
                    /\ (SwitchRecorded(t) /\ task[t].rotations >= monitoring.max_rotations)
                          => task'[t].rotations = 0]_vars

\* the step of task t from the head of the loop to its probe: the relay of
\* the group is read and _probe is chosen from is_new_proxy
ProbeChosen(t) == task[t].pc = "loop" /\ task'[t].pc = "probe"

\* C29 (as claimed): the first probe of a task, and the first probe after
\* the group was switched to another relay than the one probed last, is
\* probe_service_multi (is_new_proxy is set when _probe is chosen).
C29_MultiProbeAfterSwitch ==
    [][\A t \in Tasks :
          ProbeChosen(t)
              => /\ task[t] = [NoTask EXCEPT !.pc = "loop"] => task'[t].is_new_proxy
                 /\ (/\ task[t].current_node \in Nodes
                     /\ clash[TaskGroup(t)] # task[t].current_node)
                       => task'[t].is_new_proxy]_vars

\* C30 (as claimed): the outcome a task records for the relay it read at
\* the head of its loop comes from a probe made while that relay is the one
\* selected in the group: the relay is selected when the probe starts and
\* still is when the probe returns and is recorded, whatever the other tasks
\* do in between.
C30_ProbedRelayIsActive ==
    [][\A t \in DOMAIN task :
          /\ (task[t].pc = "probe" /\ task'[t].pc = "record"
                 /\ task[t].current_node # NoneNode)
                => clash[TaskGroup(t)] = task[t].current_node
          /\ (task[t].pc = "record" /\ task'[t].pc # "record"
                 /\ task[t].current_node # NoneNode)
                => clash[TaskGroup(t)] = task[t].current_node]_vars

====
